---- MODULE Spec2Model ----
(***************************************************************************)
(* Round-based multi-LLM discussion orchestrator (src/index.tsx).          *)
(* The App component's React state is the state of the model; every event  *)
(* handler is an action; an async handler is split at its awaits: the part *)
(* that runs at the click, and the continuation that runs when the awaited *)
(* external call settles.  Round objects live in a heap because the code   *)
(* mutates them in place and shares them between the active history, the   *)
(* closures of handlers in flight and the saved discussions.               *)
(***************************************************************************)
EXTENDS Integers, Sequences, FiniteSets, TLC

\* ---------------------------------------------------------------- bounds
MaxPlanned == 2     \* rounds planned in one session
MaxSaved == 1       \* saved discussions kept in the model
MaxStray == 1       \* requests outliving their execution
MaxOps == 2         \* handler continuations the model can hold at once

\* ------------------------------------------------------- types, constants
Null == "null"

Agent(p, m) == [provider |-> p, model |-> m]
GoogleAgent == Agent("Google", "gemini-2.5-pro")
AnthropicAgent == Agent("Anthropic", "claude-3-opus")
\* an agent no roster can hold: its provider is none of AVAILABLE_MODELS
ForeignAgent == Agent("Acme", "acme-1")

AVAILABLE_MODELS == {GoogleAgent, AnthropicAgent}
AvailableProviders == {a.provider : a \in AVAILABLE_MODELS}
\* the providers executeCall's switch has a case for
SwitchProviders == {"Google", "Anthropic", "OpenAI", "Groq", "Mistral", "DeepSeek", "OpenEvidence"}

StopConditions == {"continue", "consensus_formed", "round_limit_reached", "insufficient_information"}

Call(a) == [provider |-> a.provider, model |-> a.model, role |-> "role",
            prompt |-> "prompt", timeout_sec |-> 30]

\* optional values: <<>> is undefined, <<v>> is v
None == <<>>
Some(v) == <<v>>
IsSome(o) == Len(o) = 1

\* formatAIResponse on the texts of the model: a falsy text gives '',
\* markdown emphasis is stripped, clean text is kept
formatAIResponse(text) ==
    CASE text = Null -> ""
      [] text = "**ok**" -> "ok"
      [] text = "**summary**" -> "summary"
      [] text = "**consensus**" -> "consensus"
      [] OTHER -> text

VARIABLES
    appStep,            \* 'CONFIG' | 'SCOPING' | 'CLARIFICATION' | 'DISCUSSION'
    topic,
    loadingAction,      \* the busy flag
    error,
    history,            \* sequence of round object ids
    isFinished,
    selectedModels,     \* the roster, a set of agents
    modelRoles,         \* agents with a role label
    clarifiedRoles,     \* agents with a clarification
    apiKeys,            \* providers with a stored credential
    isAskingFollowUp,
    followUpQuestion,
    savedDiscussions,
    showHistoryModal,
    isDiscussionSaved,
    heap,               \* round objects, by id
    inflight,           \* continuations of handlers suspended at an await
    stray,              \* requests still out after their execution ended
    planned,            \* rounds planned so far in the session
    savedRounds         \* history variable: the rounds of each saved entry, as
                        \* they were when it was saved

vars == <<appStep, topic, loadingAction, error, history, isFinished, selectedModels,
          modelRoles, clarifiedRoles, apiKeys, isAskingFollowUp, followUpQuestion,
          savedDiscussions, showHistoryModal, isDiscussionSaved, heap, inflight, stray, planned,
          savedRounds>>

configVars == <<selectedModels, modelRoles, clarifiedRoles, apiKeys, topic>>
saveVars == <<savedDiscussions, showHistoryModal, isDiscussionSaved, planned, savedRounds>>
followVars == <<isAskingFollowUp, followUpQuestion>>

Init ==
    /\ appStep = "CONFIG"
    /\ topic = ""
    /\ loadingAction = Null
    /\ error = Null
    /\ history = <<>>
    /\ isFinished = FALSE
    /\ selectedModels = {GoogleAgent}
    /\ modelRoles = {}
    /\ clarifiedRoles = {}
    /\ apiKeys \in SUBSET AvailableProviders
    /\ isAskingFollowUp = FALSE
    /\ followUpQuestion = ""
    /\ savedDiscussions = <<>>
    /\ showHistoryModal = FALSE
    /\ isDiscussionSaved = FALSE
    /\ heap = <<>>
    /\ inflight = <<>>
    /\ stray = 0
    /\ planned = 0
    /\ savedRounds = <<>>

\* ------------------------------------------------------------ helpers
Last(s) == s[Len(s)]
latestRound == heap[Last(history)]
\* prev.slice without its limit
slice_KeepsAll(s, n) == s
\* Array.prototype.slice(0, n)
slice(s, n) == SubSeq(s, 1, IF n < Len(s) THEN n ELSE Len(s))
RemoveAt(s, i) == SubSeq(s, 1, i - 1) \o SubSeq(s, i + 1, Len(s))
\* the buttons as they would be without disabled={loadingAction !== null}
Idle_ButtonsNeverDisabled == TRUE
\* disabled={loadingAction !== null} on the buttons that start an operation
Idle == loadingAction = Null

\* getGoogleAI as it would be without the check of the credential
getGoogleAI_NoCredentialCheck == TRUE
\* getGoogleAI: null (and an error message) when the Google credential is missing
getGoogleAI == "Google" \in apiKeys

\* Round objects nothing refers to any more are garbage: the heap is cut
\* back to the highest id that a history array still in use holds.
MaxId(ids) == IF ids = {} THEN 0 ELSE LET x == CHOOSE x \in ids : \A y \in ids : y <= x IN x
Ids(hist) == {hist[k] : k \in 1..Len(hist)}
Collect(h, active, saved, ops) ==
    LET used == Ids(active)
                \cup UNION {Ids(saved[d].history) : d \in 1..Len(saved)}
                \cup UNION {Ids(ops[i].hist) : i \in 1..Len(ops)}
    IN  SubSeq(h, 1, MaxId(used))

\* the states of a Call's request
Awaiting == {"pending", "overdue"}
Settled == {"success", "failure", "blank"}
CountOf(status, S) == Cardinality({k \in 1..Len(status) : status[k] \in S})

\* a suspended handler: the history array and the finished flag of the render
\* its closure captured, its argument (the roster for clarify, the follow-up
\* flag for planning, the Call list for execute) and, for execute, the state
\* of each Call's request and the number of requests sent to the agents
Op(kind, arg, status) ==
    [kind |-> kind, hist |-> history, isFinished |-> isFinished, arg |-> arg, status |-> status,
     sent |-> CountOf(status, Awaiting)]

\* ------------------------------------------------ the external services
\* What the Coordinator can answer to a planning request.  The response
\* schema fixes the shape (a Call list, one of the four stop conditions, a
\* summary, an optional report); nothing ties the Calls to the roster (an
\* available model that is not selected is an agent outside the roster), nor
\* the presence of the report to the stop condition.
CoordinatorStops == {"continue", "round_limit_reached"}
\* the Call lists it proposes: none, one agent, every available agent, and
\* one with an agent of a provider the application does not know
CallLists ==
    {<<>>, <<Call(AnthropicAgent)>>, <<Call(GoogleAgent), Call(AnthropicAgent)>>,
     <<Call(GoogleAgent), Call(ForeignAgent)>>}
RawReport == [consensus |-> "**consensus**"]
CoordinatorResponses ==
    [round_plan : [calls : CallLists, stop_condition : CoordinatorStops],
     debate_summary : {"**summary**"},
     final_if_stopped : {None, Some(RawReport)}]
\* What it can answer to a forced stop: it is told to say consensus_formed
\* with a report, and may not comply; "" is an absent stop condition.
StopResponses ==
    [round_plan : [calls : {<<>>}, stop_condition : {"consensus_formed", "continue", ""}],
     debate_summary : {"**summary**"},
     final_if_stopped : {None, Some(RawReport)}]

\* ------------------------------------------------ configuration steps
\* handleModelSelectionChange (CONFIG step checkboxes)
handleModelSelectionChange(a, isChecked) ==
    /\ appStep = "CONFIG" /\ Idle
    /\ isChecked = (a \notin selectedModels)
    /\ selectedModels' = IF isChecked THEN selectedModels \cup {a} ELSE selectedModels \ {a}
    /\ modelRoles' = IF isChecked THEN modelRoles ELSE modelRoles \ {a}
    /\ UNCHANGED <<appStep, topic, loadingAction, error, history, isFinished, clarifiedRoles,
                   apiKeys, followVars, saveVars, heap, inflight, stray>>

\* handleApiKeyChange: the key inputs of the selected models' providers
handleApiKeyChange(p, hasKey) ==
    /\ appStep = "CONFIG" /\ Idle
    /\ p \in {a.provider : a \in selectedModels}
    /\ hasKey = (p \notin apiKeys)
    /\ apiKeys' = IF hasKey THEN apiKeys \cup {p} ELSE apiKeys \ {p}
    /\ UNCHANGED <<appStep, topic, loadingAction, error, history, isFinished, selectedModels,
                   modelRoles, clarifiedRoles, followVars, saveVars, heap, inflight, stray>>

\* the step buttons as they would be with a Next button from SCOPING to
\* CLARIFICATION
setAppStep_SkipsClarification(from, to) ==
    /\ appStep = from /\ Idle
    /\ \/ from = "CONFIG" /\ to = "SCOPING" /\ "Google" \in apiKeys /\ selectedModels # {}
       \/ from = "SCOPING" /\ to = "CONFIG"
       \/ from = "SCOPING" /\ to = "CLARIFICATION"
       \/ from = "CLARIFICATION" /\ to = "SCOPING"
    /\ appStep' = to
    /\ UNCHANGED <<topic, loadingAction, error, history, isFinished, configVars,
                   followVars, saveVars, heap, inflight, stray>>

\* the Next / Back buttons between the steps
setAppStep(from, to) ==
    /\ appStep = from /\ Idle
    /\ \/ from = "CONFIG" /\ to = "SCOPING" /\ "Google" \in apiKeys /\ selectedModels # {}
       \/ from = "SCOPING" /\ to = "CONFIG"
       \/ from = "CLARIFICATION" /\ to = "SCOPING"
    /\ appStep' = to
    /\ UNCHANGED <<topic, loadingAction, error, history, isFinished, configVars,
                   followVars, saveVars, heap, inflight, stray>>

\* the topic textarea of the SCOPING step; typing a topic also runs
\* suggestRolesForTopic, which gives every selected model a role
setTopic(text) ==
    /\ appStep = "SCOPING" /\ Idle
    /\ topic' = text
    /\ modelRoles' = IF text = "" THEN modelRoles ELSE selectedModels
    /\ UNCHANGED <<appStep, loadingAction, error, history, isFinished, selectedModels,
                   clarifiedRoles, apiKeys, followVars, saveVars, heap, inflight, stray>>

\* handleRoleChange: the role input of a selected model whose provider has a key
handleRoleChange(a, hasRole) ==
    /\ appStep = "SCOPING" /\ Idle
    /\ a \in selectedModels /\ a.provider \in apiKeys
    /\ hasRole = (a \notin modelRoles)
    /\ modelRoles' = IF hasRole THEN modelRoles \cup {a} ELSE modelRoles \ {a}
    /\ UNCHANGED <<appStep, topic, loadingAction, error, history, isFinished, selectedModels,
                   clarifiedRoles, apiKeys, followVars, saveVars, heap, inflight, stray>>

\* handleClarifyRoles up to its await
handleClarifyRoles ==
    /\ appStep = "SCOPING" /\ Idle
    /\ topic # "" /\ selectedModels \subseteq modelRoles
    /\ Len(inflight) < MaxOps
    /\ IF getGoogleAI
       THEN /\ loadingAction' = "clarify" /\ error' = Null
            /\ inflight' = Append(inflight, Op("clarify", selectedModels, <<>>))
       ELSE /\ loadingAction' = Null /\ error' = "googleApiKeyRequired"
            /\ UNCHANGED inflight
    /\ UNCHANGED <<appStep, topic, history, isFinished, configVars, followVars, saveVars,
                   heap, stray>>

\* handleClarifyRoles after its await: the clarifications of the response
\* replace the clarified roles and the application moves to CLARIFICATION
ClarifySucceeds(i) ==
    /\ i \in 1..Len(inflight) /\ inflight[i].kind = "clarify"
    /\ clarifiedRoles' = inflight[i].arg
    /\ appStep' = "CLARIFICATION"
    /\ loadingAction' = Null
    /\ inflight' = RemoveAt(inflight, i)
    /\ UNCHANGED <<topic, error, history, isFinished, selectedModels, modelRoles, apiKeys,
                   followVars, saveVars, heap, stray>>

ClarifyFails(i) ==
    /\ i \in 1..Len(inflight) /\ inflight[i].kind = "clarify"
    /\ error' = "errorOccurred"
    /\ loadingAction' = Null
    /\ inflight' = RemoveAt(inflight, i)
    /\ UNCHANGED <<appStep, topic, history, isFinished, configVars, followVars, saveVars,
                   heap, stray>>

\* ------------------------------------------------------------ planning
\* handleProcessRound up to its await; the caller's own updates ride along
ProcessRoundStart(followUp) ==
    /\ Len(inflight) < MaxOps
    /\ IF getGoogleAI
       THEN /\ loadingAction' = (IF followUp THEN "continue" ELSE "process")
            /\ error' = Null
            /\ inflight' = Append(inflight, Op("process", followUp, <<>>))
       ELSE /\ loadingAction' = Null /\ error' = "googleApiKeyRequired"
            /\ UNCHANGED inflight

\* the Start Discussion button of the CLARIFICATION step
StartDiscussion ==
    /\ appStep = "CLARIFICATION" /\ Idle
    /\ planned < MaxPlanned
    /\ ProcessRoundStart(FALSE)
    /\ appStep' = "DISCUSSION"
    /\ UNCHANGED <<topic, history, isFinished, configVars, followVars, saveVars, heap, stray>>

\* what the buttons under the latest round offer
LatestOpen == appStep = "DISCUSSION" /\ Len(history) > 0 /\ ~isFinished
LatestExecuted == IsSome(latestRound.execution_results)

\* the Proceed to Round N+1 button
ProceedToRound ==
    /\ LatestOpen /\ LatestExecuted /\ Idle
    /\ planned < MaxPlanned
    /\ ProcessRoundStart(FALSE)
    /\ UNCHANGED <<appStep, topic, history, isFinished, configVars, followVars, saveVars,
                   heap, stray>>

\* the report block of a round, where the follow-up controls are drawn
SomeReportShown ==
    appStep = "DISCUSSION" /\ \E k \in 1..Len(history) : IsSome(heap[history[k]].final_report)

setIsAskingFollowUp(b) ==
    /\ SomeReportShown /\ Idle
    /\ isAskingFollowUp = ~b /\ followUpQuestion = ""
    /\ isAskingFollowUp' = b
    /\ UNCHANGED <<appStep, topic, loadingAction, error, history, isFinished, configVars,
                   followUpQuestion, saveVars, heap, inflight, stray>>

setFollowUpQuestion(text) ==
    /\ SomeReportShown /\ Idle /\ isAskingFollowUp
    /\ followUpQuestion # text
    /\ followUpQuestion' = text
    /\ UNCHANGED <<appStep, topic, loadingAction, error, history, isFinished, configVars,
                   isAskingFollowUp, saveVars, heap, inflight, stray>>

\* handleContinueWithFollowUp
handleContinueWithFollowUp ==
    /\ SomeReportShown /\ Idle /\ isAskingFollowUp
    /\ followUpQuestion # ""
    /\ planned < MaxPlanned
    /\ isFinished' = FALSE
    /\ isAskingFollowUp' = FALSE
    /\ ProcessRoundStart(TRUE)
    /\ followUpQuestion' = ""
    /\ UNCHANGED <<appStep, topic, history, configVars, saveVars, heap, stray>>

\* the report as handleProcessRound and handleStopDiscussion clean it
cleanedFinalReport(parsed) ==
    IF IsSome(parsed.final_if_stopped)
    THEN Some([consensus |-> formatAIResponse(parsed.final_if_stopped[1].consensus)])
    ELSE None

\* the round numbered after the history on screen instead of the history
\* the handler captured
newHistoryItem_NumberedOnScreen(hist, parsed) ==
    [round |-> Len(history) + 1,
     summary |-> formatAIResponse(parsed.debate_summary),
     plan |-> parsed.round_plan,
     execution_results |-> None,
     final_report |-> cleanedFinalReport(parsed)]

newHistoryItem(hist, parsed) ==
    [round |-> Len(hist) + 1,
     summary |-> formatAIResponse(parsed.debate_summary),
     plan |-> parsed.round_plan,
     execution_results |-> None,
     final_report |-> cleanedFinalReport(parsed)]

\* handleProcessRound after its await, the response parsed
ProcessRoundSucceeds(i, parsed) ==
    /\ i \in 1..Len(inflight) /\ inflight[i].kind = "process"
    /\ parsed \in CoordinatorResponses
    /\ heap' = Append(heap, newHistoryItem(inflight[i].hist, parsed))
    /\ isFinished' = IF parsed.round_plan.stop_condition # "continue" THEN TRUE ELSE isFinished
    /\ history' = Append(inflight[i].hist, Len(heap) + 1)
    /\ appStep' = "DISCUSSION"
    /\ loadingAction' = Null
    /\ inflight' = RemoveAt(inflight, i)
    /\ planned' = planned + 1
    /\ UNCHANGED <<topic, error, configVars, followVars, savedDiscussions, showHistoryModal,
                   isDiscussionSaved, stray, savedRounds>>

\* handleProcessRound as it would be without its finally block
ProcessRoundFails_NoFinally(i) ==
    /\ i \in 1..Len(inflight) /\ inflight[i].kind = "process"
    /\ error' = "errorOccurred"
    /\ inflight' = RemoveAt(inflight, i)
    /\ UNCHANGED <<appStep, topic, loadingAction, history, isFinished, configVars, followVars,
                   saveVars, heap, stray>>

\* handleProcessRound after its await, the request or the parsing failed
ProcessRoundFails(i) ==
    /\ i \in 1..Len(inflight) /\ inflight[i].kind = "process"
    /\ error' = "errorOccurred"
    /\ loadingAction' = Null
    /\ inflight' = RemoveAt(inflight, i)
    /\ UNCHANGED <<appStep, topic, history, isFinished, configVars, followVars, saveVars,
                   heap, stray>>

\* ------------------------------------------------------------ execution
\* executeCall up to its first await: without a credential it throws before
\* its try block, so its promise is rejected; a provider the switch has no
\* case for throws inside the try block and becomes an error result; any
\* other Call is sent and awaits its answer
executeCall(call) ==
    IF call.provider \notin apiKeys THEN "rejected"
    ELSE IF call.provider \notin SwitchProviders THEN "failure"
    ELSE "pending"

\* the ExecutionResult executeCall returns for a settled Call: the cleaned
\* text of the answer, which is empty when the answer has no text, or the
\* error text of the catch block
ExecutionResult(call, outcome) ==
    [provider |-> call.provider, model |-> call.model,
     response |-> CASE outcome = "success" -> formatAIResponse("**ok**")
                    [] outcome = "blank" -> formatAIResponse(Null)
                    [] OTHER -> "Error: Failed to get response."]

\* handleExecuteRound up to the await of Promise.all.  A rejected promise
\* settles Promise.all at once: the catch and finally blocks run before any
\* other event, while the Calls already sent are still out.
handleExecuteRound ==
    /\ LatestOpen /\ ~LatestExecuted /\ Idle
    /\ Len(inflight) < MaxOps
    /\ LET calls == latestRound.plan.calls
           status == [k \in 1..Len(calls) |-> executeCall(calls[k])]
       IN  IF \E k \in 1..Len(calls) : status[k] = "rejected"
           THEN /\ stray + CountOf(status, Awaiting) <= MaxStray
                /\ stray' = stray + CountOf(status, Awaiting)
                /\ error' = "errorOccurred"
                /\ loadingAction' = Null
                /\ UNCHANGED inflight
           ELSE /\ loadingAction' = "execute" /\ error' = Null
                /\ inflight' = Append(inflight, Op("execute", calls, status))
                /\ UNCHANGED stray
    /\ UNCHANGED <<appStep, topic, history, isFinished, configVars, followVars, saveVars, heap>>

\* executeCall as it would be if it sent a failed request once more
CallSettles_RetriesFailure(i, k, outcome) ==
    /\ i \in 1..Len(inflight) /\ inflight[i].kind = "execute"
    /\ k \in 1..Len(inflight[i].status) /\ inflight[i].status[k] \in Awaiting
    /\ outcome \in Settled
    /\ inflight' = IF outcome = "failure" /\ inflight[i].sent <= Len(inflight[i].status)
                   THEN [inflight EXCEPT ![i].sent = @ + 1]
                   ELSE [inflight EXCEPT ![i].status[k] = outcome]
    /\ UNCHANGED <<appStep, topic, loadingAction, error, history, isFinished, configVars,
                   followVars, saveVars, heap, stray>>

\* an agent answers, or its request fails (network failure, non-success
\* response, malformed body): executeCall returns a result
CallSettles(i, k, outcome) ==
    /\ i \in 1..Len(inflight) /\ inflight[i].kind = "execute"
    /\ k \in 1..Len(inflight[i].status) /\ inflight[i].status[k] \in Awaiting
    /\ outcome \in Settled
    /\ inflight' = [inflight EXCEPT ![i].status[k] = outcome]
    /\ UNCHANGED <<appStep, topic, loadingAction, error, history, isFinished, configVars,
                   followVars, saveVars, heap, stray>>

\* timeout_sec seconds pass without an answer; nothing in executeCall or
\* handleExecuteRound reads timeout_sec or sets a timer
CallTimeoutElapses(i, k) ==
    /\ i \in 1..Len(inflight) /\ inflight[i].kind = "execute"
    /\ k \in 1..Len(inflight[i].status) /\ inflight[i].status[k] = "pending"
    /\ inflight' = [inflight EXCEPT ![i].status[k] = "overdue"]
    /\ UNCHANGED <<appStep, topic, loadingAction, error, history, isFinished, configVars,
                   followVars, saveVars, heap, stray>>

\* handleExecuteRound after Promise.all resolved: the results are written
\* into the last round object of the history as it is now
ExecuteRoundCompletes(i) ==
    /\ i \in 1..Len(inflight) /\ inflight[i].kind = "execute"
    /\ \A k \in 1..Len(inflight[i].status) : inflight[i].status[k] \in Settled
    /\ Len(history) > 0
    /\ LET calls == inflight[i].arg
           results == [k \in 1..Len(calls) |-> ExecutionResult(calls[k], inflight[i].status[k])]
       IN  heap' = [heap EXCEPT ![Last(history)].execution_results = Some(results)]
    /\ loadingAction' = Null
    /\ inflight' = RemoveAt(inflight, i)
    /\ UNCHANGED <<appStep, topic, error, history, isFinished, configVars, followVars,
                   saveVars, stray>>

\* the late request as it would be if its result were still written into
\* the latest round
StraySettles_AttachesResult ==
    /\ stray > 0
    /\ stray' = stray - 1
    /\ heap' = IF Len(history) > 0
               THEN [heap EXCEPT ![Last(history)].execution_results =
                        Some(<<ExecutionResult(Call(GoogleAgent), "success")>>)]
               ELSE heap
    /\ UNCHANGED <<appStep, topic, loadingAction, error, history, isFinished, configVars,
                   followVars, saveVars, inflight>>

\* a request of an execution that has already ended settles: nobody listens
StraySettles ==
    /\ stray > 0
    /\ stray' = stray - 1
    /\ UNCHANGED <<appStep, topic, loadingAction, error, history, isFinished, configVars,
                   followVars, saveVars, heap, inflight>>

\* ------------------------------------------------------------ forced stop
\* handleStopDiscussion up to its await
handleStopDiscussion ==
    /\ LatestOpen /\ LatestExecuted /\ Idle
    /\ Len(inflight) < MaxOps
    /\ IF getGoogleAI
       THEN /\ loadingAction' = "stop" /\ error' = Null
            /\ inflight' = Append(inflight, Op("stop", FALSE, <<>>))
       ELSE /\ loadingAction' = Null /\ error' = "googleApiKeyRequired"
            /\ UNCHANGED inflight
    /\ UNCHANGED <<appStep, topic, history, isFinished, configVars, followVars, saveVars,
                   heap, stray>>

\* the forced stop as it would be if it stored the plan of the response
\* instead of its stop condition alone
stoppedRound_PlanReplaced(lastItem, parsed) ==
    [lastItem EXCEPT !.final_report = cleanedFinalReport(parsed),
                     !.plan = [parsed.round_plan EXCEPT !.stop_condition =
                                  IF parsed.round_plan.stop_condition # ""
                                  THEN parsed.round_plan.stop_condition
                                  ELSE "consensus_formed"]]

\* what the forced stop writes into lastItem: the report of the response and
\* its stop condition, consensus_formed when the response has none
stoppedRound(lastItem, parsed) ==
    [lastItem EXCEPT !.final_report = cleanedFinalReport(parsed),
                     !.plan.stop_condition =
                         IF parsed.round_plan.stop_condition # ""
                         THEN parsed.round_plan.stop_condition
                         ELSE "consensus_formed"]

\* handleStopDiscussion after its await: the last round object of the history
\* as it is now gets the report and the stop condition of the response
StopDiscussionSucceeds(i, parsed) ==
    /\ i \in 1..Len(inflight) /\ inflight[i].kind = "stop"
    /\ parsed \in StopResponses
    /\ heap' = IF Len(history) > 0
               THEN [heap EXCEPT ![Last(history)] = stoppedRound(heap[Last(history)], parsed)]
               ELSE heap
    /\ isFinished' = TRUE
    /\ loadingAction' = Null
    /\ inflight' = RemoveAt(inflight, i)
    /\ UNCHANGED <<appStep, topic, error, history, configVars, followVars, saveVars, stray>>

\* the forced stop as it would be with setIsFinished(true) in its finally block
StopDiscussionFails_StillFinishes(i) ==
    /\ i \in 1..Len(inflight) /\ inflight[i].kind = "stop"
    /\ error' = "errorOccurred"
    /\ loadingAction' = Null
    /\ isFinished' = TRUE
    /\ inflight' = RemoveAt(inflight, i)
    /\ UNCHANGED <<appStep, topic, history, configVars, followVars, saveVars, heap, stray>>

\* handleStopDiscussion after its await, the request or the parsing failed
StopDiscussionFails(i) ==
    /\ i \in 1..Len(inflight) /\ inflight[i].kind = "stop"
    /\ error' = "errorOccurred"
    /\ loadingAction' = Null
    /\ inflight' = RemoveAt(inflight, i)
    /\ UNCHANGED <<appStep, topic, history, isFinished, configVars, followVars, saveVars,
                   heap, stray>>

\* ------------------------------------------------- saved discussions
SavedDiscussion ==
    [topic |-> topic, selectedModels |-> selectedModels, modelRoles |-> modelRoles,
     clarifiedRoles |-> clarifiedRoles, history |-> history, isFinished |-> isFinished]

\* saveCurrentDiscussion: the entry holds the history array itself, hence
\* the same round objects
saveCurrentDiscussion ==
    /\ SomeReportShown /\ Idle /\ ~isDiscussionSaved
    /\ topic # "" /\ Len(history) > 0
    /\ savedDiscussions' = <<SavedDiscussion>> \o slice(savedDiscussions, 19)
    /\ isDiscussionSaved' = TRUE
    /\ savedRounds' = <<[k \in 1..Len(history) |-> heap[history[k]]]>> \o slice(savedRounds, 19)
    /\ UNCHANGED <<appStep, topic, loadingAction, error, history, isFinished, configVars,
                   followVars, showHistoryModal, heap, inflight, stray, planned>>

\* the Discussion History button of the header, and the modal's close button;
\* the modal is only opened when it has an entry to show
setShowHistoryModal(b) ==
    /\ showHistoryModal = ~b
    /\ b => Idle /\ Len(savedDiscussions) > 0
    /\ showHistoryModal' = b
    /\ UNCHANGED <<appStep, topic, loadingAction, error, history, isFinished, configVars,
                   followVars, savedDiscussions, isDiscussionSaved, heap, inflight, stray, planned,
                   savedRounds>>

\* loadDiscussion: the Load button of an entry in the modal, which stays
\* enabled while an operation is in flight
loadDiscussion(d) ==
    /\ showHistoryModal
    /\ d \in 1..Len(savedDiscussions)
    /\ topic' = savedDiscussions[d].topic
    /\ selectedModels' = savedDiscussions[d].selectedModels
    /\ modelRoles' = savedDiscussions[d].modelRoles
    /\ clarifiedRoles' = savedDiscussions[d].clarifiedRoles
    /\ history' = savedDiscussions[d].history
    /\ isFinished' = savedDiscussions[d].isFinished
    /\ appStep' = "DISCUSSION"
    /\ showHistoryModal' = FALSE
    /\ heap' = Collect(heap, history', savedDiscussions, inflight)
    /\ UNCHANGED <<loadingAction, error, apiKeys, followVars, savedDiscussions,
                   isDiscussionSaved, inflight, stray, planned, savedRounds>>

deleteDiscussion(d) ==
    /\ showHistoryModal
    /\ d \in 1..Len(savedDiscussions)
    /\ savedDiscussions' = RemoveAt(savedDiscussions, d)
    /\ savedRounds' = RemoveAt(savedRounds, d)
    /\ heap' = Collect(heap, history, savedDiscussions', inflight)
    /\ UNCHANGED <<appStep, topic, loadingAction, error, history, isFinished, configVars,
                   followVars, showHistoryModal, isDiscussionSaved, inflight, stray, planned>>

\* startNewDiscussion as it would be if it also emptied the saved list and
\* the stored keys
startNewDiscussion_ClearsStorage ==
    /\ appStep = "DISCUSSION" /\ Idle
    /\ topic' = "" /\ history' = <<>> /\ isFinished' = FALSE /\ error' = Null
    /\ selectedModels' = {GoogleAgent}
    /\ modelRoles' = {} /\ clarifiedRoles' = {} /\ appStep' = "CONFIG"
    /\ isAskingFollowUp' = FALSE /\ followUpQuestion' = ""
    /\ isDiscussionSaved' = FALSE
    /\ savedDiscussions' = <<>> /\ savedRounds' = <<>> /\ apiKeys' = {}
    /\ heap' = Collect(heap, history', savedDiscussions', inflight)
    /\ UNCHANGED <<loadingAction, showHistoryModal, inflight, stray, planned>>

\* startNewDiscussion
startNewDiscussion ==
    /\ appStep = "DISCUSSION" /\ Idle
    /\ topic' = "" /\ history' = <<>> /\ isFinished' = FALSE /\ error' = Null
    /\ selectedModels' = {GoogleAgent}
    /\ modelRoles' = {} /\ clarifiedRoles' = {} /\ appStep' = "CONFIG"
    /\ isAskingFollowUp' = FALSE /\ followUpQuestion' = ""
    /\ isDiscussionSaved' = FALSE
    /\ heap' = Collect(heap, history', savedDiscussions, inflight)
    /\ UNCHANGED <<loadingAction, apiKeys, savedDiscussions, showHistoryModal, inflight, stray,
                   planned, savedRounds>>

\* ------------------------------------------------------------ behaviours
\* the configuration steps before a discussion
Configure ==
    \/ \E a \in {AnthropicAgent}, b \in BOOLEAN : handleModelSelectionChange(a, b)
    \/ \E p \in AvailableProviders, b \in BOOLEAN : handleApiKeyChange(p, b)
    \/ \E from, to \in {"CONFIG", "SCOPING", "CLARIFICATION"} : setAppStep(from, to)
    \/ \E text \in {"", "topic"} : setTopic(text)
    \/ \E a \in AVAILABLE_MODELS, b \in BOOLEAN : handleRoleChange(a, b)
    \/ handleClarifyRoles
    \/ \E i \in 1..MaxOps : ClarifySucceeds(i)
    \/ \E i \in 1..MaxOps : ClarifyFails(i)

\* how a request to an agent ends: with a text, or with a failure
Answers == {"success", "failure"}

\* the round cycle, for the answers R to planning and S to a forced stop and
\* the ends O of the requests to the agents
Discuss(R, S, O) ==
    \/ StartDiscussion
    \/ ProceedToRound
    \/ \E b \in {TRUE} : setIsAskingFollowUp(b)
    \/ \E text \in {"question"} : setFollowUpQuestion(text)
    \/ handleContinueWithFollowUp
    \/ \E i \in 1..MaxOps, parsed \in R : ProcessRoundSucceeds(i, parsed)
    \/ \E i \in 1..MaxOps : ProcessRoundFails(i)
    \/ handleExecuteRound
    \/ \E i \in 1..MaxOps, k \in 1..2, outcome \in O : CallSettles(i, k, outcome)
    \/ \E i \in 1..MaxOps, k \in 1..2 : CallTimeoutElapses(i, k)
    \/ \E i \in 1..MaxOps : ExecuteRoundCompletes(i)
    \/ StraySettles
    \/ handleStopDiscussion
    \/ \E i \in 1..MaxOps, parsed \in S : StopDiscussionSucceeds(i, parsed)
    \/ \E i \in 1..MaxOps : StopDiscussionFails(i)
    \/ startNewDiscussion

\* the saved discussions
Archive ==
    \/ Len(savedDiscussions) < MaxSaved /\ saveCurrentDiscussion
    \/ \E b \in BOOLEAN : setShowHistoryModal(b)
    \/ \E d \in 1..MaxSaved : loadDiscussion(d)
    \/ \E d \in 1..MaxSaved : deleteDiscussion(d)

\* one session without the saved discussions, every answer of the Coordinator
Next == Configure \/ Discuss(CoordinatorResponses, StopResponses, Answers)

Spec == Init /\ [][Next]_vars

\* Every external call settles: the request to the Coordinator is answered
\* or fails, each request to an agent ends, and the continuation of the
\* handler that awaits them runs.
Settles ==
    \E i \in 1..MaxOps :
        \/ ClarifySucceeds(i) \/ ClarifyFails(i)
        \/ \E parsed \in CoordinatorResponses : ProcessRoundSucceeds(i, parsed)
        \/ ProcessRoundFails(i)
        \/ \E k \in 1..2, outcome \in Answers : CallSettles(i, k, outcome)
        \/ ExecuteRoundCompletes(i)
        \/ \E parsed \in StopResponses : StopDiscussionSucceeds(i, parsed)
        \/ StopDiscussionFails(i)

SpecLive == Init /\ [][Next]_vars /\ WF_vars(Settles)

\* one session with the saved discussions, for two answers of the
\* Coordinator to planning and two to a forced stop
LeanResponses ==
    {r \in CoordinatorResponses :
        \/ /\ r.round_plan.calls = <<Call(GoogleAgent), Call(AnthropicAgent)>>
           /\ r.round_plan.stop_condition = "continue" /\ r.final_if_stopped = None
        \/ /\ r.round_plan.calls = <<Call(AnthropicAgent)>>
           /\ r.round_plan.stop_condition = "round_limit_reached"
           /\ r.final_if_stopped # None}
LeanStopResponses ==
    {r \in StopResponses :
        \/ r.round_plan.stop_condition = "consensus_formed" /\ r.final_if_stopped # None
        \/ r.round_plan.stop_condition = "continue" /\ r.final_if_stopped = None}

\* the shortest way through the configuration steps, and the key inputs
ConfigureLean ==
    \/ \E a \in {AnthropicAgent}, b \in {TRUE} : handleModelSelectionChange(a, b)
    \/ \E p \in AvailableProviders, b \in BOOLEAN : handleApiKeyChange(p, b)
    \/ \E from \in {"CONFIG"}, to \in {"SCOPING"} : setAppStep(from, to)
    \/ \E text \in {"topic"} : setTopic(text)
    \/ handleClarifyRoles
    \/ \E i \in 1..MaxOps : ClarifySucceeds(i)

NextSaved == ConfigureLean \/ Discuss(LeanResponses, LeanStopResponses, Answers) \/ Archive

SpecSaved == Init /\ [][NextSaved]_vars

\* one session in which an agent may also answer without any text
NextAnswers == ConfigureLean \/ Discuss(LeanResponses, LeanStopResponses, Settled)

SpecAnswers == Init /\ [][NextAnswers]_vars

\* A session that starts with a list of saved discussions read from the
\* storage, a few entries short of the limit or at it, and a finished
\* discussion on screen; the task is blank when the discussion is about
\* pasted code.
MaxStored == 20
StoredRound ==
    [round |-> 1, summary |-> "summary",
     plan |-> [calls |-> <<Call(GoogleAgent)>>, stop_condition |-> "consensus_formed"],
     execution_results |-> None,
     final_report |-> Some([consensus |-> "consensus"])]
StoredDiscussion(n) ==
    [topic |-> ToString(n), selectedModels |-> {GoogleAgent}, modelRoles |-> {GoogleAgent},
     clarifiedRoles |-> {GoogleAgent}, history |-> <<1>>, isFinished |-> TRUE]

InitStored ==
    /\ appStep = "DISCUSSION"
    /\ topic \in {"", "topic"}
    /\ loadingAction = Null
    /\ error = Null
    /\ history = <<1>>
    /\ isFinished = TRUE
    /\ selectedModels = {GoogleAgent}
    /\ modelRoles = {GoogleAgent}
    /\ clarifiedRoles = {GoogleAgent}
    /\ apiKeys = {"Google"}
    /\ isAskingFollowUp = FALSE
    /\ followUpQuestion = ""
    /\ \E n \in (MaxStored - 2)..MaxStored :
          /\ savedDiscussions = [k \in 1..n |-> StoredDiscussion(k)]
          /\ savedRounds = [k \in 1..n |-> <<StoredRound>>]
    /\ showHistoryModal = FALSE
    /\ isDiscussionSaved = FALSE
    /\ heap = <<StoredRound>>
    /\ inflight = <<>>
    /\ stray = 0
    /\ planned = 0

\* saving, loading and deleting at the head of the list, and starting anew
NextStored ==
    \/ saveCurrentDiscussion
    \/ \E b \in BOOLEAN : setShowHistoryModal(b)
    \/ \E d \in 1..MaxSaved : loadDiscussion(d)
    \/ \E d \in 1..MaxSaved : deleteDiscussion(d)
    \/ startNewDiscussion

SpecStored == InitStored /\ [][NextStored]_vars

\* ------------------------------------------------------------ properties
Quiet == Idle /\ inflight = <<>>
Terminal(r) == r.plan.stop_condition # "continue"
CallAgent(c) == Agent(c.provider, c.model)
ExecuteOps == {i \in 1..Len(inflight) : inflight[i].kind = "execute"}

\* C1: whenever the history is not empty and no operation is in flight,
\* isFinished is true exactly when the stop condition of the latest round is
\* not `continue`.
C1_FinishedIffLatestTerminal ==
    (Len(history) > 0 /\ Quiet) => (isFinished <=> Terminal(latestRound))

\* C2: an execution requested on a round with a Call whose provider has no
\* credential is not ended by it: the handler goes on to await the Calls and
\* raises no error.
C2_MissingCredentialIsPerCall ==
    [][(handleExecuteRound /\ \E k \in 1..Len(latestRound.plan.calls) :
            /\ latestRound.plan.calls[k].provider \in SwitchProviders
            /\ latestRound.plan.calls[k].provider \notin apiKeys)
        => (loadingAction' = "execute" /\ error' = Null)]_vars

\* C3: no Call of an execution in flight is still awaited once its timeout
\* has elapsed: by then it has become a failure result.
C3_TimeoutBoundsEachCall ==
    \A i \in ExecuteOps : \A k \in 1..Len(inflight[i].status) : inflight[i].status[k] # "overdue"

\* C4: an execution requested on a round with a Call to a provider the
\* application has no case for is not ended by it: it goes on to attach a
\* result for every Call and raises no error.
C4_FailedRequestIsPerCall ==
    [][(handleExecuteRound /\ \E k \in 1..Len(latestRound.plan.calls) :
            latestRound.plan.calls[k].provider \notin SwitchProviders)
        => (loadingAction' = "execute" /\ error' = Null)]_vars

\* C5: every round object either has no results or has one result per Call,
\* the i-th carrying the provider and model of the i-th Call.
ResultsMatchCalls(r) ==
    IsSome(r.execution_results) =>
        /\ Len(r.execution_results[1]) = Len(r.plan.calls)
        /\ \A k \in 1..Len(r.plan.calls) :
              /\ r.execution_results[1][k].provider = r.plan.calls[k].provider
              /\ r.execution_results[1][k].model = r.plan.calls[k].model
C5_ResultsCompleteOrAbsent == \A id \in 1..Len(heap) : ResultsMatchCalls(heap[id])

\* C6: an execution is a full barrier: no request it sent is still out once
\* the execution has ended.
C6_ExecutionIsFullBarrier == stray = 0

\* C7: at most one asynchronous operation is in flight at any time, and the
\* busy flag is set as long as it is: every request for a second one finds
\* its button disabled.
C7_SingleOperationInFlight ==
    /\ Len(inflight) <= 1
    /\ inflight # <<>> => loadingAction # Null
C7_Witness ==
    /\ Len(inflight) = 1 /\ inflight[1].kind = "execute"
    /\ LatestOpen /\ ~LatestExecuted

\* C8: the ordinals of the rounds of the history are 1..N in order.
C8_OrdinalsAreSequential == \A k \in 1..Len(history) : heap[history[k]].round = k
C8_Witness ==
    /\ Len(history) = 2 /\ Quiet /\ error = "errorOccurred"
    /\ heap[history[2]].round = 2
    /\ IsSome(heap[history[1]].final_report)
    /\ IsSome(heap[history[2]].execution_results)

\* C9: a planning operation that fails leaves the history and the finished
\* flag as they were when the operation was requested.
C9_FailedPlanningChangesNothing ==
    [][\A i \in 1..Len(inflight) : ProcessRoundFails(i) =>
            /\ history' = inflight[i].hist
            /\ isFinished' = inflight[i].isFinished]_vars

\* C10: every Call of every round of the history targets an agent of the roster.
C10_CallsTargetTheRoster ==
    \A k \in 1..Len(history) : \A c \in 1..Len(heap[history[k]].plan.calls) :
        CallAgent(heap[history[k]].plan.calls[c]) \in selectedModels

\* C11: every round of the history has a final report exactly when its stop
\* condition is not `continue`.
C11_ReportIffTerminal ==
    \A k \in 1..Len(history) :
        IsSome(heap[history[k]].final_report) <=> Terminal(heap[history[k]])

\* C12: every round of the history has a non-empty Call list, each Call with
\* a non-empty directive text and a timeout greater than zero.
C12_CallListsAreWellFormed ==
    \A k \in 1..Len(history) :
        LET calls == heap[history[k]].plan.calls
        IN  /\ Len(calls) > 0
            /\ \A c \in 1..Len(calls) : calls[c].prompt # "" /\ calls[c].timeout_sec > 0

\* C13: a forced stop that completes leaves the latest round with the stop
\* condition `consensus_formed` and a final report, the history with the
\* rounds it had at the request, and isFinished true.
C13_ForcedStopFormsConsensus ==
    [][\A i \in 1..Len(inflight) :
            (\E parsed \in StopResponses : StopDiscussionSucceeds(i, parsed)) =>
                /\ heap'[Last(history')].plan.stop_condition = "consensus_formed"
                /\ IsSome(heap'[Last(history')].final_report)
                /\ history' = inflight[i].hist
                /\ isFinished']_vars

\* C14: a forced stop that completes leaves the history array, every round
\* before the latest one, and the ordinal, Call list, summary and results of
\* the latest round as they were.
C14_ForcedStopFrame ==
    [][\A i \in 1..Len(inflight) :
            (\E parsed \in StopResponses : StopDiscussionSucceeds(i, parsed)) =>
                /\ history' = history
                /\ \A k \in 1..(Len(history) - 1) : heap'[history[k]] = heap[history[k]]
                /\ heap'[Last(history)].round = latestRound.round
                /\ heap'[Last(history)].plan.calls = latestRound.plan.calls
                /\ heap'[Last(history)].summary = latestRound.summary
                /\ heap'[Last(history)].execution_results = latestRound.execution_results]_vars
C14_Witness ==
    /\ Len(history) = 2 /\ Quiet /\ isFinished
    /\ heap[history[2]].plan.stop_condition = "consensus_formed"
    /\ IsSome(heap[history[2]].final_report)
    /\ IsSome(heap[history[2]].execution_results)
    /\ Len(heap[history[2]].plan.calls) = 2
    /\ IsSome(heap[history[1]].execution_results)

\* C15: isFinished is not false while the latest round of the history has a
\* stop condition other than `continue`: a follow-up leaves it true until
\* the follow-up round is appended.
C15_FinishedUntilFollowUpRound ==
    Len(history) > 0 => ~(~isFinished /\ Terminal(latestRound))

\* C16: a planning operation that appends a round after a round whose stop
\* condition is not `continue` carries a follow-up question.
C16_OnlyFollowUpRevives ==
    [][\A i \in 1..Len(inflight) :
            (/\ \E parsed \in CoordinatorResponses : ProcessRoundSucceeds(i, parsed)
             /\ Len(inflight[i].hist) > 0
             /\ Terminal(heap[Last(inflight[i].hist)]))
            => inflight[i].arg = TRUE]_vars

\* C17: while isFinished is true, no planning without a follow-up question,
\* no execution and no forced stop starts.
C17_FinishedRejectsOperations ==
    [][(StartDiscussion \/ ProceedToRound \/ handleExecuteRound \/ handleStopDiscussion)
        => ~isFinished]_vars

\* C18: a planning or forced-stop operation requested while the credential
\* of the Coordinator's provider is missing ends at once with the error of
\* the missing credential: no request is sent, the history and every round
\* object are as they were, and the busy flag is clear.
C18_MissingCoordinatorCredentialIsFatal ==
    [][("Google" \notin apiKeys /\ (StartDiscussion \/ ProceedToRound
                                      \/ handleContinueWithFollowUp \/ handleStopDiscussion))
        => /\ error' = "googleApiKeyRequired"
           /\ inflight' = inflight
           /\ history' = history
           /\ heap' = heap
           /\ loadingAction' = Null]_vars
C18_Witness ==
    /\ error = "googleApiKeyRequired" /\ "Google" \notin apiKeys
    /\ appStep = "DISCUSSION" /\ Len(history) > 0 /\ Quiet
    /\ ~isFinished /\ Terminal(latestRound)
    /\ ~isAskingFollowUp

\* C19: a round that has been executed can be executed again: whenever the
\* latest round is open, has its results and no operation is in flight, an
\* execution of it can be requested.
C19_ExecutedRoundCanBeExecutedAgain ==
    (LatestOpen /\ LatestExecuted /\ Quiet) => ENABLED handleExecuteRound

\* C20: once the history has a round, a step that neither starts a new
\* discussion nor loads a saved one leaves the roster as it was: the selected
\* models, their role labels and their clarifications.
C20_RosterFixedAfterRoundOne ==
    [][(/\ Len(history) > 0
        /\ ~startNewDiscussion
        /\ ~(\E d \in 1..Len(savedDiscussions) : loadDiscussion(d)))
        => UNCHANGED <<selectedModels, modelRoles, clarifiedRoles>>]_vars

C22_HistoryIsAppendOnly ==
    [][(/\ ~startNewDiscussion
        /\ ~(\E d \in 1..Len(savedDiscussions) : loadDiscussion(d)))
        => /\ Len(history') \in {Len(history), Len(history) + 1}
           /\ SubSeq(history', 1, Len(history)) = history
           /\ \A k \in 1..(Len(history) - 1) : heap'[history[k]] = heap[history[k]]
           /\ Len(history) > 0 =>
                 /\ heap'[Last(history)].round = latestRound.round
                 /\ heap'[Last(history)].plan.calls = latestRound.plan.calls
                 /\ heap'[Last(history)].summary = latestRound.summary]_vars

\* the controls that request a planning operation: Start Discussion on the
\* CLARIFICATION step, Proceed under an open executed latest round, the
\* follow-up controls in the report block of a round
PlanningOffered ==
    Idle /\ (appStep = "CLARIFICATION" \/ (LatestOpen /\ LatestExecuted) \/ SomeReportShown)

\* C23: in the state that follows a failed planning operation, a control
\* that requests a planning operation is on screen and enabled.
C23_FailedPlanningIsRetryable ==
    [][\A i \in 1..Len(inflight) : ProcessRoundFails(i) => PlanningOffered']_vars

\* C24: loading a saved entry restores the task, the roster and the finished
\* flag of the entry, and a history whose rounds are as they were when the
\* entry was saved.
C24_LoadRestoresWhatWasSaved ==
    [][\A d \in 1..Len(savedDiscussions) : loadDiscussion(d) =>
            /\ topic' = savedDiscussions[d].topic
            /\ selectedModels' = savedDiscussions[d].selectedModels
            /\ modelRoles' = savedDiscussions[d].modelRoles
            /\ clarifiedRoles' = savedDiscussions[d].clarifiedRoles
            /\ isFinished' = savedDiscussions[d].isFinished
            /\ [k \in 1..Len(history') |-> heap'[history'[k]]] = savedRounds[d]]_vars

C26_FollowUpOnlyWhenFinished ==
    [][handleContinueWithFollowUp => Terminal(latestRound)]_vars

\* C27: every result attached to a round carries exactly one payload: the
\* text of the answer, or the description of the error.
IsFailurePayload(r) == r.response = "Error: Failed to get response."
IsSuccessPayload(r) == r.response # "" /\ ~IsFailurePayload(r)
C27_ResultHasOnePayload ==
    \A id \in 1..Len(heap) :
        IsSome(heap[id].execution_results) =>
            \A k \in 1..Len(heap[id].execution_results[1]) :
                IsSuccessPayload(heap[id].execution_results[1][k])
                    # IsFailurePayload(heap[id].execution_results[1][k])

\* C28: a forced stop whose Coordinator call fails writes nothing: no round
\* object changes, and the history and isFinished are as they were when the
\* stop was requested.
C28_FailedStopWritesNothing ==
    [][\A i \in 1..Len(inflight) : StopDiscussionFails(i) =>
            /\ heap' = heap
            /\ history' = inflight[i].hist
            /\ isFinished' = inflight[i].isFinished]_vars
C28_Witness ==
    /\ error = "errorOccurred" /\ Quiet /\ LatestOpen /\ LatestExecuted
    /\ Len(history) = 2 /\ ~Terminal(latestRound) /\ ~IsSome(latestRound.final_report)
    /\ planned = MaxPlanned

\* C29: the rounds held in a saved entry stay as they were when the entry
\* was saved, whatever is executed or stopped afterwards.
C29_SavedEntryIsSnapshot ==
    \A d \in 1..Len(savedDiscussions) :
        [k \in 1..Len(savedDiscussions[d].history) |-> heap[savedDiscussions[d].history[k]]]
            = savedRounds[d]

\* C30: an execution is requested only on a latest round that has no results
\* and whose stop condition is `continue`.
C30_ExecutionOnlyOnOpenRound ==
    [][handleExecuteRound =>
            /\ ~IsSome(latestRound.execution_results)
            /\ latestRound.plan.stop_condition = "continue"]_vars

\* C31: every round of the history before the latest one whose stop
\* condition is `continue` has its results.
C31_EarlierOpenRoundsAreExecuted ==
    \A k \in 1..(Len(history) - 1) :
        heap[history[k]].plan.stop_condition = "continue"
            => IsSome(heap[history[k]].execution_results)

\* C32: whenever the busy flag is set, it is eventually cleared, provided
\* every external call settles.
C32_BusyFlagIsEventuallyCleared == (loadingAction # Null) ~> (loadingAction = Null)
C32_Witness ==
    /\ Quiet /\ Len(history) = 2 /\ isFinished
    /\ IsSome(heap[history[1]].execution_results)
    /\ IsSome(heap[history[2]].execution_results)
    /\ heap[history[2]].plan.stop_condition = "consensus_formed"
    /\ clarifiedRoles = selectedModels /\ error = Null

\* C33: on a history that has rounds, a forced stop and a planning without a
\* follow-up question are requested only when the latest round has results.
C33_StopAndProceedNeedResults ==
    [][(Len(history) > 0 /\ (handleStopDiscussion \/ ProceedToRound \/ StartDiscussion))
        => IsSome(latestRound.execution_results)]_vars

\* C34: when a request of an execution that ended with an error settles,
\* no round object and no history changes, whether or not another operation
\* is in flight by then.
C34_LateResultsAreDiscarded ==
    [][StraySettles => (heap' = heap /\ history' = history /\ inflight' = inflight)]_vars
C34_Witness ==
    /\ stray > 0 /\ inflight # <<>> /\ loadingAction # Null
    /\ Len(history) > 0 /\ ~IsSome(latestRound.execution_results)

\* C35: the list of saved discussions never holds more than 20 entries;
\* saveCurrentDiscussion acts only with a task and a history, puts the new
\* entry first and keeps the 19 entries that were first before, in order.
C35_SavedListIsCapped ==
    [][/\ Len(savedDiscussions') <= 20
       /\ saveCurrentDiscussion =>
              /\ topic # "" /\ Len(history) > 0
              /\ savedDiscussions'[1] = SavedDiscussion
              /\ Len(savedDiscussions') =
                     (IF Len(savedDiscussions) < 20 THEN Len(savedDiscussions) + 1 ELSE 20)
              /\ \A k \in 2..Len(savedDiscussions') :
                     savedDiscussions'[k] = savedDiscussions[k - 1]]_vars
C35_Witness ==
    /\ Len(savedDiscussions) = 20 /\ isDiscussionSaved
    /\ savedDiscussions[1].topic = "topic"
    /\ savedDiscussions[2].topic = "topic"
    /\ savedDiscussions[20].topic = ToString(18)

\* C36: startNewDiscussion leaves an empty history, isFinished false, no
\* task, no roles, no clarifications, no error and the CONFIG step, with the
\* first model selected as at the start; the saved discussions, their rounds
\* and the stored keys are as they were.
C36_NewDiscussionResetsTheActiveOne ==
    [][startNewDiscussion =>
            /\ history' = <<>> /\ isFinished' = FALSE /\ topic' = ""
            /\ selectedModels' = {GoogleAgent}
            /\ modelRoles' = {} /\ clarifiedRoles' = {}
            /\ error' = Null /\ appStep' = "CONFIG"
            /\ isAskingFollowUp' = FALSE /\ followUpQuestion' = ""
            /\ savedDiscussions' = savedDiscussions
            /\ apiKeys' = apiKeys
            /\ \A d \in 1..Len(savedDiscussions) :
                  \A k \in 1..Len(savedDiscussions[d].history) :
                      heap'[savedDiscussions[d].history[k]]
                          = heap[savedDiscussions[d].history[k]]]_vars
C36_Witness ==
    /\ appStep = "CONFIG" /\ history = <<>> /\ ~isFinished /\ error = Null
    /\ Len(savedDiscussions) = 1 /\ Len(savedDiscussions[1].history) = 2
    /\ apiKeys = AvailableProviders /\ ~isDiscussionSaved
    /\ modelRoles = {} /\ clarifiedRoles = {} /\ topic = ""

====
